---------------------------- MODULE Spec2Model ----------------------------
(***************************************************************************)
(* A model of patacrep/songs/__init__.py: the cache-validated construction *)
(* of a Song (hash, cache lookup, parse, post-processing, persist), the    *)
(* cache directory creation of cached_name, DataSubpath, render dispatch, *)
(* search_file and unprefixed_title.                                       *)
(*                                                                         *)
(* A path is a record [abs, segs]: whether it is absolute and its          *)
(* segments.  The file system maps normalised absolute paths to nodes.     *)
(* A step of the code is an operator from (locals, file system) to         *)
(* (locals, file system); the sequential specification runs a whole        *)
(* construction as one action, the concurrent one interleaves the steps    *)
(* of two processes.                                                       *)
(***************************************************************************)
EXTENDS Integers, Sequences, FiniteSets, TLC

VARIABLES
    fs,        \* the file system: normalised absolute path -> node
    version,   \* Song.CACHE_VERSION of the running release
    song,      \* sequential runs: the latest construction: its locals, and
               \* the file system before (pre) and after it (post)
    prev,      \* sequential runs: what the construction before that one left,
               \* when it completed with a base directory
    procs,     \* concurrent runs: the locals of each process
    call,      \* pure-function runs: the arguments of the latest call
    result     \* pure-function runs: what that call returned

vars == <<fs, version, song, prev, procs, call, result>>

----------------------------------------------------------------------------
(* Bounds of the model. *)

\* Releases after the one of the source bump CACHE_VERSION up to this many times.
MaxUpgrades == 1

\* The subpath of a DataSubpath holds at most this many segments.
MaxSegs == 3

\* A title holds at most this many characters.
MaxTitleLen == 4

\* A configured prefix list holds at most this many prefixes.
MaxPrefixes == 2

----------------------------------------------------------------------------
(* os.path on records [abs, segs]. *)

Path(abs, segs) == [abs |-> abs, segs |-> segs]

\* The empty string "" (also what datadir=None becomes).
EmptyPath == Path(FALSE, <<>>)

\* The working directory of the process.
Cwd == Path(TRUE, <<"d">>)

isabs(p) == p.abs

join(a, b) == IF isabs(b) THEN b ELSE Path(a.abs, a.segs \o b.segs)

RECURSIVE NormSegs(_, _)
\* os.path.normpath on the segments of an absolute path: ".." drops the
\* segment before it (and is dropped itself at the root).
NormSegs(done, rest) ==
    IF rest = <<>> THEN done
    ELSE IF Head(rest) = ".."
         THEN NormSegs(IF done = <<>> THEN <<>> ELSE SubSeq(done, 1, Len(done) - 1),
                       Tail(rest))
         ELSE NormSegs(Append(done, Head(rest)), Tail(rest))

abspath(p) == Path(TRUE, NormSegs(<<>>, join(Cwd, p).segs))

dirname(p) ==
    IF p.segs = <<>> THEN p ELSE Path(p.abs, SubSeq(p.segs, 1, Len(p.segs) - 1))

----------------------------------------------------------------------------
(* The file system. *)

Absent == [kind |-> "absent"]
Dir == [kind |-> "dir"]
File(bytes) == [kind |-> "file", bytes |-> bytes]

\* What a file can hold: the text of a song, a pickled mapping, or bytes
\* that are no pickle (a truncated or corrupted cache file, an empty file).
Text(t) == [fmt |-> "text", text |-> t]
Pickle(m) == [fmt |-> "pickle", snap |-> m]
Garbage == [fmt |-> "garbage"]
Empty == [fmt |-> "empty"]

\* The node a path names (the kernel resolves the path from the working
\* directory); a path outside the modelled tree names nothing.
Node(f, p) == IF abspath(p).segs \in DOMAIN f THEN f[abspath(p).segs] ELSE Absent

exists(f, p) == Node(f, p).kind # "absent"
isdir(f, p) == Node(f, p).kind = "dir"
isfile(f, p) == Node(f, p).kind = "file"

Put(f, p, node) == [f EXCEPT ![abspath(p).segs] = node]


----------------------------------------------------------------------------
(* Values. *)

\* datadir=None.
None == [none |-> TRUE]

\* Python truth of the datadir argument: neither None nor "".
Truthy(d) == d # None /\ d # EmptyPath

\* hashlib.md5(bytes).hexdigest(): equal bytes give equal digests, and
\* different bytes of the model give different digests.
Md5(bytes) == [md5 |-> bytes]

\* Song.cached_attributes, in the order of the list.
cached_attributes ==
    << "titles", "unprefixed_titles", "cached", "data", "subpath",
       "languages", "authors", "_filehash", "_version" >>

\* Song.CACHE_VERSION as the source sets it.
CACHE_VERSION == 2

Range(s) == {s[i] : i \in 1..Len(s)}

----------------------------------------------------------------------------
(* The locals of one call: a Song construction or a direct cached_name.    *)
(*   op        "Song" or "cached_name" ("none" before any call)            *)
(*   pc        the step to take next; "ready", "returned" and "raised" end *)
(*   subpath, config, arg      the arguments (arg is datadir)              *)
(*   release   CACHE_VERSION of the release that runs the call             *)
(*   datadir, fullpath         self.datadir, self.fullpath                 *)
(*   self      the attributes set on self so far (name -> value)           *)
(*   out       the mapping _write_cache has built                          *)
(*   mk        cached_name's frame: directory, fullpath, the makedirs      *)
(*             frame at work (cur), the frames waiting (stack), and where  *)
(*             the call returns to (ret); raced records that a mkdir of a  *)
(*             directory this call had found missing ended in EEXIST       *)
(*   cpath     what the latest cached_name returned                        *)
(*   seen      the node pickle.load read (Absent before it has read)       *)
(*   trace     what the call did, in order ("mkfail": cached_name raised)  *)
(*   error     the exception that left the call ("" if none)               *)
(***************************************************************************)

NoSelf == [x \in {} |-> 0]

NoFrame == [dir |-> EmptyPath, path |-> EmptyPath, cur |-> EmptyPath,
            stack |-> <<>>, ret |-> "", deep |-> FALSE, raced |-> FALSE]

Idle ==
    [op |-> "none", pc |-> "idle", subpath |-> EmptyPath, config |-> NoSelf,
     arg |-> None, release |-> 0, datadir |-> EmptyPath, fullpath |-> EmptyPath,
     self |-> NoSelf, out |-> NoSelf, mk |-> NoFrame, cpath |-> EmptyPath,
     seen |-> Absent, trace |-> <<>>, error |-> ""]

Terminal == {"idle", "ready", "returned", "raised"}

Raise(l, err) == [l EXCEPT !.pc = "raised", !.error = err]

Did(l, event) == [l EXCEPT !.trace = Append(@, event)]

\* setattr(self, name, value)
SetAttr(l, name, value) == [l EXCEPT !.self = (name :> value) @@ @]

----------------------------------------------------------------------------
(* cached_name (lines 16-27), os.makedirs unfolded into its system calls.  *)

\* Line 18: os.path.abspath(os.path.join(datadir, '.cache', filename)).
CachedPath(datadir, filename) ==
    abspath(join(join(datadir, Path(FALSE, <<".cache">>)), filename))

\* Lines 18-21: the two paths, and the call of os.makedirs(directory).
CallCachedName(l, datadir, filename, ret) ==
    LET fullpath == CachedPath(datadir, filename)
        directory == dirname(fullpath)
    IN  [l EXCEPT !.pc = "mk_probe",
                  !.mk = [dir |-> directory, path |-> fullpath, cur |-> directory,
                          stack |-> <<>>, ret |-> ret, deep |-> FALSE,
                          raced |-> FALSE]]

\* Line 27: return fullpath.
MkReturn(l) == [l EXCEPT !.pc = l.mk.ret, !.cpath = l.mk.path]

\* Line 26: raise.  The call of line 115 stands inside the try of lines
\* 113-128, whose bare except logs a warning and goes on to parse; the calls
\* of lines 112 and 163 stand outside any try.
MkRaise(l, err) ==
    IF l.mk.ret = "load"
    THEN [Did(Did(l, "mkfail"), "warn") EXCEPT !.pc = "parse"]
    ELSE Raise(Did(l, "mkfail"), err)

\* os.makedirs(name): when name has a parent that does not exist, make the
\* parent first (a recursive call), and only then mkdir(name).
StepMkProbe(l, f) ==
    LET name == l.mk.cur
    IN  IF name.segs # <<>> /\ ~exists(f, dirname(name))
        THEN [l |-> [l EXCEPT !.mk.cur = dirname(name),
                              !.mk.stack = <<name>> \o @,
                              !.mk.deep = TRUE],
              f |-> f]
        ELSE [l |-> [l EXCEPT !.pc = "mk_mkdir"], f |-> f]

\* mkdir(2) on name.
MkdirErrno(f, name) ==
    IF exists(f, name) THEN "EEXIST"
    ELSE IF ~exists(f, dirname(name)) THEN "ENOENT"
    ELSE IF ~isdir(f, dirname(name)) THEN "ENOTDIR"
    ELSE "OK"

\* The mkdir(name) of the makedirs frame at work.  A recursive call that
\* ends in FileExistsError is passed over by its caller, which goes on to
\* its own mkdir; the outermost mkdir's FileExistsError reaches line 22; any
\* other error leaves every frame and is re-raised by line 26.
StepMkMkdir(l, f) ==
    LET name == l.mk.cur
        errno == MkdirErrno(f, name)
        f2 == IF errno = "OK" THEN Put(f, name, Dir) ELSE f
        l1 == [l EXCEPT !.mk.raced = @ \/ (errno = "EEXIST" /\ l.mk.deep)]
    IN  IF errno \in {"OK", "EEXIST"} /\ l.mk.stack # <<>>
        THEN [l |-> [l1 EXCEPT !.mk.cur = Head(l.mk.stack),
                               !.mk.stack = Tail(@)],
              f |-> f2]
        ELSE IF errno = "OK" THEN [l |-> MkReturn(l1), f |-> f2]
        ELSE IF errno = "EEXIST" THEN [l |-> [l1 EXCEPT !.pc = "mk_isdir"], f |-> f]
        ELSE [l |-> MkRaise(l1, errno), f |-> f]

\* StepMkIsdir re-raising EEXIST as any other error.
StepMkIsdir_Reraise(l, f) == [l |-> MkRaise(l, "EEXIST"), f |-> f]

\* Lines 23-26: error.errno == errno.EEXIST and os.path.isdir(directory).
StepMkIsdir(l, f) ==
    IF isdir(f, l.mk.dir)
    THEN [l |-> MkReturn(l), f |-> f]
    ELSE [l |-> MkRaise(l, "EEXIST"), f |-> f]

----------------------------------------------------------------------------
(* unprefixed_title (lines 249-256).  A title and a prefix are sequences   *)
(* of characters.                                                          *)

\* \w: a word character.
IsWord(c) == c \in {"a", "b"}

\* \s: white space.
IsSpace(c) == c \in {" ", "\n"}

\* \b at position i (between t[i] and t[i+1]): exactly one side is a word
\* character; the ends of the string count as non-word.
Boundary(t, i) ==
    LET left == i >= 1 /\ IsWord(t[i])
        right == i + 1 <= Len(t) /\ IsWord(t[i + 1])
    IN  left # right

\* \s*: white space is taken greedily from position i + 1; the number of
\* characters taken.
RECURSIVE Spaces(_, _)
Spaces(t, i) == IF i + 1 <= Len(t) /\ IsSpace(t[i + 1]) THEN 1 + Spaces(t, i + 1) ELSE 0

\* (.*)$ from position i + 1: "." is any character but the line break, and
\* "$" stands at the end of the string or before a line break that ends it.
\* TRUE when the rest of the title from i + 1 can be matched.
DotStarEnd(t, i) ==
    \A j \in (i + 1)..(Len(t) - 1) : t[j] # "\n"

\* group(2) of a match whose white space ends at position i: the rest of
\* the title without the line break that ends it.
Group2(t, i) ==
    IF i + 1 <= Len(t) /\ t[Len(t)] = "\n"
    THEN SubSeq(t, i + 1, Len(t) - 1)
    ELSE SubSeq(t, i + 1, Len(t))

\* re.compile(r"^(%s)\b\s*(.*)$" % prefix).match(title): the white space
\* taken is the longest (k, counting down) for which the rest matches.
\* The result is [matched, group2].
RECURSIVE MatchFrom(_, _, _)
MatchFrom(t, n, k) ==
    IF k < 0 THEN [matched |-> FALSE, group2 |-> <<>>]
    ELSE IF DotStarEnd(t, n + k) THEN [matched |-> TRUE, group2 |-> Group2(t, n + k)]
    ELSE MatchFrom(t, n, k - 1)

Match(prefix, title) ==
    LET n == Len(prefix)
    IN  IF n <= Len(title) /\ SubSeq(title, 1, n) = prefix /\ Boundary(title, n)
        THEN MatchFrom(title, n, Spaces(title, n))
        ELSE [matched |-> FALSE, group2 |-> <<>>]

RECURSIVE unprefixed_title(_, _)
unprefixed_title(title, prefixes) ==
    IF prefixes = <<>> THEN title
    ELSE LET m == Match(Head(prefixes), title)
         IN  IF m.matched THEN m.group2 ELSE unprefixed_title(title, Tail(prefixes))

----------------------------------------------------------------------------
(* The collaborators of Song: the parse hook of a song format and the      *)
(* author normaliser.                                                      *)

\* The texts a song file holds in the model.
SongTexts == {"t1", "t2"}

\* What the parse hook of the format reads out of each text: the raw
\* titles, the languages, the raw authors, the metadata and the extra data
\* to cache.  It is a function of the file's bytes alone.
Parsed(text) ==
    IF text = "t1"
    THEN [titles |-> << <<"a", " ", "b">>, <<"b">> >>, languages |-> <<"english">>,
          authors |-> <<"x", "unknown">>, data |-> {<<"album", "one">>},
          cached |-> "ast1"]
    ELSE [titles |-> << <<"b", " ", "a">> >>, languages |-> <<"french">>,
          authors |-> <<"y">>, data |-> {<<"album", "two">>},
          cached |-> "ast2"]

\* Song._parse as a format overrides it (lines 182-197 state its contract):
\* bytes that are no song text make it raise.
ParseHook(bytes) ==
    IF bytes.fmt = "text" /\ bytes.text \in SongTexts
    THEN [ok |-> TRUE, attrs |-> Parsed(bytes.text)]
    ELSE [ok |-> FALSE, attrs |-> NoSelf]

\* patacrep.authors.process_listauthors: the raw authors without those the
\* options tell it to ignore.
process_listauthors(authors, ignore) ==
    SelectSeq(authors, LAMBDA a : a \notin ignore)

\* config.get("_compiled_authwords", {})
AuthWords(config) ==
    IF "_compiled_authwords" \in DOMAIN config
    THEN config["_compiled_authwords"]
    ELSE {}

----------------------------------------------------------------------------
(* Song.__init__ (lines 98-153) and Song._write_cache (lines 155-165),     *)
(* one operator per step; each takes the locals and the file system and    *)
(* gives both back.                                                        *)

\* Begin testing "datadir is not None" where line 107 tests "datadir".
Begin_NotNone(subpath, config, arg, release) ==
    LET datadir == IF arg = None THEN EmptyPath ELSE arg
    IN  [Idle EXCEPT !.op = "Song", !.subpath = subpath, !.config = config,
                     !.arg = arg, !.release = release, !.datadir = datadir,
                     !.fullpath = join(datadir, subpath),
                     !.self = ("encoding" :> config["encoding"]),
                     !.pc = IF arg # None THEN "hash" ELSE "parse"]

\* Lines 98-107: datadir, fullpath, encoding and config are set; a truthy
\* datadir leads to the cache check, anything else straight to the parse.
Begin(subpath, config, arg, release) ==
    LET datadir == IF arg = None THEN EmptyPath ELSE arg
    IN  [Idle EXCEPT !.op = "Song", !.subpath = subpath, !.config = config,
                     !.arg = arg, !.release = release, !.datadir = datadir,
                     !.fullpath = join(datadir, subpath),
                     !.self = ("encoding" :> config["encoding"]),
                     !.pc = IF Truthy(arg) THEN "hash" ELSE "parse"]

\* Lines 109-112: the file is read and hashed, then cached_name is called
\* for os.path.exists.
StepHash(l, f) ==
    IF ~isfile(f, l.fullpath)
    THEN [l |-> Raise(l, "IOError"), f |-> f]
    ELSE [l |-> CallCachedName(
                    Did(SetAttr(l, "_filehash", Md5(Node(f, l.fullpath).bytes)), "hash"),
                    l.arg, l.subpath, "exists"),
          f |-> f]

\* Lines 112-115: os.path.exists on the cache path; when it exists,
\* cached_name is called again for the open of line 114.
StepExists(l, f) ==
    IF exists(f, l.cpath)
    THEN [l |-> CallCachedName(Did(l, "exists"), l.arg, l.subpath, "load"), f |-> f]
    ELSE [l |-> [Did(l, "exists") EXCEPT !.pc = "parse"], f |-> f]

\* Warn without the except clause: the exception leaves the constructor.
Warn_Reraise(l) == Raise(l, "UnpicklingError")

\* Warn returning from the constructor after the warning.
Warn_Return(l) == [Did(l, "warn") EXCEPT !.pc = "ready"]

\* Lines 125-128: the bare except logs a warning; the parse follows.
Warn(l) == [Did(l, "warn") EXCEPT !.pc = "parse"]

\* Adopt without the return of line 124: the parse follows a hit too.
Adopt_NoReturn(l, snap) ==
    LET n == Len(cached_attributes)
        lacking == {i \in 1..n : cached_attributes[i] \notin DOMAIN snap}
        upto == IF lacking = {} THEN n
                ELSE (CHOOSE i \in lacking : \A j \in lacking : i <= j) - 1
        got == [a \in {cached_attributes[i] : i \in 1..upto} |-> snap[a]]
        set == [l EXCEPT !.self = got @@ @,
                         !.trace = @ \o [i \in 1..upto |-> "setattr"]]
    IN  IF lacking = {} THEN [set EXCEPT !.pc = "parse"] ELSE Warn(set)

\* Adopt taking the attributes the mapping has and skipping the others.
Adopt_SkipMissing(l, snap) ==
    LET has == {a \in Range(cached_attributes) : a \in DOMAIN snap}
        got == [a \in has |-> snap[a]]
        n == Cardinality(has)
    IN  [l EXCEPT !.self = got @@ @,
                  !.trace = @ \o [i \in 1..n |-> "setattr"],
                  !.pc = "ready"]

\* Lines 122-124: setattr for each cached attribute, in order, up to the
\* first one the mapping lacks (a KeyError); with none lacking, return.
Adopt(l, snap) ==
    LET n == Len(cached_attributes)
        lacking == {i \in 1..n : cached_attributes[i] \notin DOMAIN snap}
        upto == IF lacking = {} THEN n
                ELSE (CHOOSE i \in lacking : \A j \in lacking : i <= j) - 1
        got == [a \in {cached_attributes[i] : i \in 1..upto} |-> snap[a]]
        set == [l EXCEPT !.self = got @@ @,
                         !.trace = @ \o [i \in 1..upto |-> "setattr"]]
    IN  IF lacking = {} THEN [set EXCEPT !.pc = "ready"] ELSE Warn(set)

\* HashMatches without the comparison.
HashMatches_Any(snap, filehash) == TRUE

\* Line 119: cached['_filehash'] == self._filehash
HashMatches(snap, filehash) == snap["_filehash"] = filehash

\* VersionMatches without the comparison.
VersionMatches_Any(snap, release) == TRUE

\* Line 120: cached['_version'] == self.CACHE_VERSION
VersionMatches(snap, release) == snap["_version"] = release

\* Lines 114-128: open and unpickle the cache file, compare its hash and
\* then its version, and adopt it when both are equal.  Whatever is raised
\* in between ends in the warning.
StepLoad(l, f) ==
    LET node == Node(f, l.cpath)
        l1 == [Did(l, "load") EXCEPT !.seen = node]
    IN  [f |-> f,
         l |-> IF node.kind # "file" \/ node.bytes.fmt # "pickle" THEN Warn(l1)
               ELSE LET snap == node.bytes.snap
                    IN  IF "_filehash" \notin DOMAIN snap THEN Warn(l1)
                        ELSE IF ~HashMatches(snap, l.self["_filehash"])
                             THEN [l1 EXCEPT !.pc = "parse"]
                        ELSE IF "_version" \notin DOMAIN snap THEN Warn(l1)
                        ELSE IF ~VersionMatches(snap, l.release)
                             THEN [l1 EXCEPT !.pc = "parse"]
                        ELSE Adopt(l1, snap)]

\* StepParse removing the cache entry when the parse hook raises.
StepParse_DropsCache(l, f) ==
    LET l1 == Did(SetAttr(SetAttr(SetAttr(l, "titles", <<>>), "data", {}),
                          "cached", "None"), "parse")
        hook == ParseHook(Node(f, l.fullpath).bytes)
    IN  IF ~isfile(f, l.fullpath) THEN [f |-> f, l |-> Raise(l1, "IOError")]
        ELSE IF ~hook.ok
             THEN [f |-> IF Truthy(l.arg) THEN Put(f, CachedPath(l.arg, l.subpath), Absent)
                         ELSE f,
                   l |-> Raise(l1, "ParseError")]
        ELSE [f |-> f, l |-> [l1 EXCEPT !.self = hook.attrs @@ @, !.pc = "post"]]

\* Lines 131-134: titles, data and cached are reset, then the parse hook
\* reads the file; what it raises leaves the constructor.
StepParse(l, f) ==
    LET l1 == Did(SetAttr(SetAttr(SetAttr(l, "titles", <<>>), "data", {}),
                          "cached", "None"), "parse")
        hook == ParseHook(Node(f, l.fullpath).bytes)
    IN  [f |-> f,
         l |-> IF ~isfile(f, l.fullpath) THEN Raise(l1, "IOError")
               ELSE IF ~hook.ok THEN Raise(l1, "ParseError")
               ELSE [l1 EXCEPT !.self = hook.attrs @@ @, !.pc = "post"]]

\* Lines 137-149: subpath, unprefixed_titles and the normalised authors.
StepPost(l, f) ==
    LET titles == l.self["titles"]
        l1 == SetAttr(l, "subpath", l.subpath)
        l2 == SetAttr(l1, "unprefixed_titles",
                  [i \in 1..Len(titles) |->
                      unprefixed_title(titles[i], l.config["titleprefixwords"])])
        l3 == SetAttr(l2, "authors",
                  process_listauthors(l.self["authors"], AuthWords(l.config)))
    IN  [l |-> [Did(l3, "post") EXCEPT !.pc = "persist"], f |-> f]

\* StepPersist copying every cached attribute but _filehash.
StepPersist_NoHash(l, f) ==
    LET l1 == Did(SetAttr(l, "_version", l.release), "persist")
        attrs == Range(cached_attributes)
    IN  [f |-> f,
         l |-> IF l.datadir = EmptyPath THEN [l1 EXCEPT !.pc = "ready"]
               ELSE IF ~(attrs \subseteq DOMAIN l1.self) THEN Raise(l1, "AttributeError")
               ELSE CallCachedName(
                        [l1 EXCEPT !.out = [a \in attrs \ {"_filehash"} |-> l1.self[a]]],
                        l1.datadir, l1.self["subpath"], "write_open")]

\* Lines 152-163: _version is set and _write_cache called; with a truthy
\* self.datadir it copies the cached attributes into a mapping and calls
\* cached_name for the open of line 163.
StepPersist(l, f) ==
    LET l1 == Did(SetAttr(l, "_version", l.release), "persist")
        attrs == Range(cached_attributes)
    IN  [f |-> f,
         l |-> IF l.datadir = EmptyPath THEN [l1 EXCEPT !.pc = "ready"]
               ELSE IF ~(attrs \subseteq DOMAIN l1.self) THEN Raise(l1, "AttributeError")
               ELSE CallCachedName(
                        [l1 EXCEPT !.out = [a \in attrs |-> l1.self[a]]],
                        l1.datadir, l1.self["subpath"], "write_open")]

\* Line 163: open(..., 'wb') creates the file or empties it.
StepWriteOpen(l, f) ==
    IF isdir(f, l.cpath) THEN [l |-> Raise(l, "IsADirectoryError"), f |-> f]
    ELSE IF ~isdir(f, dirname(l.cpath)) THEN [l |-> Raise(l, "ENOENT"), f |-> f]
    ELSE [l |-> [l EXCEPT !.pc = "write_dump"], f |-> Put(f, l.cpath, File(Empty))]

\* StepWriteDump with the bytes never reaching the file.
StepWriteDump_Unwritten(l, f) ==
    [l |-> [Did(l, "write") EXCEPT !.pc = "ready"], f |-> f]

\* Lines 161-165: pickle.dump writes the mapping into the open file.
StepWriteDump(l, f) ==
    [l |-> [Did(l, "write") EXCEPT !.pc = "ready"],
     f |-> Put(f, l.cpath, File(Pickle(l.out)))]

\* A direct call cached_name(datadir, filename).
BeginCachedName(datadir, filename) ==
    CallCachedName([Idle EXCEPT !.op = "cached_name", !.arg = datadir,
                                !.subpath = filename],
                   datadir, filename, "returned")

\* The step the call stands at.
Step(l, f) ==
    CASE l.pc = "hash" -> StepHash(l, f)
      [] l.pc = "mk_probe" -> StepMkProbe(l, f)
      [] l.pc = "mk_mkdir" -> StepMkMkdir(l, f)
      [] l.pc = "mk_isdir" -> StepMkIsdir(l, f)
      [] l.pc = "exists" -> StepExists(l, f)
      [] l.pc = "load" -> StepLoad(l, f)
      [] l.pc = "parse" -> StepParse(l, f)
      [] l.pc = "post" -> StepPost(l, f)
      [] l.pc = "persist" -> StepPersist(l, f)
      [] l.pc = "write_open" -> StepWriteOpen(l, f)
      [] l.pc = "write_dump" -> StepWriteDump(l, f)

\* A whole call without interruption: steps until it returns or raises.
RECURSIVE Run(_, _)
Run(l, f) == IF l.pc \in Terminal THEN [l |-> l, f |-> f]
             ELSE LET s == Step(l, f) IN Run(s.l, s.f)

----------------------------------------------------------------------------
(* The arguments the model constructs songs with. *)

\* The data directory /d, which is also the working directory.
D == Path(TRUE, <<"d">>)

\* The song file /d/sub/a.sg: relative to the data directory, and absolute.
RelSub == Path(FALSE, <<"sub", "a.sg">>)
AbsSub == Path(TRUE, <<"d", "sub", "a.sg">>)

Subpaths == {RelSub, AbsSub}

DatadirArgs == {None, EmptyPath, D}

\* Two configurations: one strips the prefix "a" and ignores the author
\* "unknown", the other has no prefix and no author options.
ConfigA ==
    ("encoding" :> "utf8") @@ ("titleprefixwords" :> << <<"a">> >>)
    @@ ("datadir" :> <<D>>) @@ ("_compiled_authwords" :> {"unknown"})

ConfigB ==
    ("encoding" :> "utf8") @@ ("titleprefixwords" :> <<>>) @@ ("datadir" :> <<D>>)

Configs == {ConfigA, ConfigB}

\* The paths of the modelled tree, and the tree before any construction:
\* the data directory holds the song file and no cache.
Tree ==
    { <<>>, <<"d">>, <<"d", "sub">>, <<"d", "sub", "a.sg">>, <<"d", ".cache">>,
      <<"d", ".cache", "sub">>, <<"d", ".cache", "sub", "a.sg">> }

FS0 ==
    [p \in Tree |->
        IF p \in {<<>>, <<"d">>, <<"d", "sub">>} THEN Dir
        ELSE IF p = <<"d", "sub", "a.sg">> THEN File(Text("t1"))
        ELSE Absent]

\* The cache file of the song in the data directory.
CacheFile == Path(TRUE, <<"d", ".cache", "sub", "a.sg">>)

\* The segments of the cache directory of the data directory.
CacheDirSegs == <<"d", ".cache">>

----------------------------------------------------------------------------
(* Sequential runs: constructions, one after the other, of songs of one    *)
(* data directory, between edits of the song file, releases that bump      *)
(* CACHE_VERSION, and damage to the cache file.                            *)

Procs == {1, 2}

NoCall == [l |-> Idle, pre |-> FS0, post |-> FS0]

NoPrev == [op |-> "none"]

\* What is kept of a construction once another follows it: its arguments,
\* its release, the bytes of the song file when it started, the attributes
\* it ended with and the cache file it left.
Remember(s) ==
    IF s.l.pc = "ready" /\ Truthy(s.l.arg)
    THEN [op |-> "Song", subpath |-> s.l.subpath, config |-> s.l.config,
          arg |-> s.l.arg, release |-> s.l.release, self |-> s.l.self,
          bytes |-> Node(s.pre, s.l.fullpath).bytes,
          cache |-> Node(s.post, CachedPath(s.l.arg, s.l.subpath))]
    ELSE NoPrev

NoPure == [op |-> "none"]

Init ==
    /\ fs = FS0
    /\ version = CACHE_VERSION
    /\ song = NoCall
    /\ prev = NoPrev
    /\ procs = [p \in Procs |-> Idle]
    /\ call = NoPure
    /\ result = NoPure

\* Song(subpath, config, datadir=arg)
Construct(subpath, config, arg) ==
    LET r == Run(Begin(subpath, config, arg, version), fs)
    IN  /\ fs' = r.f
        /\ song' = [l |-> r.l, pre |-> fs, post |-> r.f]
        /\ prev' = Remember(song)
        /\ UNCHANGED <<version, procs, call, result>>

\* The user saves the song file with another text.
EditSong(text) ==
    /\ Node(fs, AbsSub) # File(Text(text))
    /\ fs' = Put(fs, AbsSub, File(Text(text)))
    /\ UNCHANGED <<version, song, prev, procs, call, result>>

\* A release with a higher CACHE_VERSION is installed (lines 81-83).
Upgrade ==
    /\ version < CACHE_VERSION + MaxUpgrades
    /\ version' = version + 1
    /\ UNCHANGED <<fs, song, prev, procs, call, result>>

\* The cache file is damaged on disk: its bytes are no pickle any more.
CorruptCache ==
    /\ isfile(fs, CacheFile)
    /\ Node(fs, CacheFile).bytes # Garbage
    /\ fs' = Put(fs, CacheFile, File(Garbage))
    /\ UNCHANGED <<version, song, prev, procs, call, result>>

Next ==
    \/ \E subpath \in Subpaths, config \in Configs, arg \in DatadirArgs :
          Construct(subpath, config, arg)
    \/ \E text \in SongTexts : EditSong(text)
    \/ Upgrade
    \/ CorruptCache

Spec == Init /\ [][Next]_vars

----------------------------------------------------------------------------
(* Concurrent runs: two processes, each making one call (a construction of *)
(* the song of the data directory, or cached_name for its cache file),     *)
(* their steps interleaved with each other and with edits of the song      *)
(* file.  They start from the tree without a cache, or with the cache a    *)
(* construction has left.                                                  *)

Cached0 == Run(Begin(RelSub, ConfigA, D, CACHE_VERSION), FS0).f

InitConc ==
    /\ fs \in {FS0, Cached0}
    /\ version = CACHE_VERSION
    /\ song = NoCall
    /\ prev = NoPrev
    /\ procs = [p \in Procs |-> Idle]
    /\ call = NoPure
    /\ result = NoPure

\* Process p calls cached_name(datadir, filename) for the song's cache file.
CallCached(p) ==
    /\ procs[p].pc = "idle"
    /\ procs' = [procs EXCEPT ![p] = BeginCachedName(D, RelSub)]
    /\ UNCHANGED <<fs, version, song, prev, call, result>>

\* Process p calls Song(subpath, config, datadir=D).
CallSong(p, config) ==
    /\ procs[p].pc = "idle"
    /\ procs' = [procs EXCEPT ![p] = Begin(RelSub, config, D, version)]
    /\ UNCHANGED <<fs, version, song, prev, call, result>>

\* Process p takes the next step of its call.
StepProc(p) ==
    /\ procs[p].pc \notin Terminal
    /\ LET s == Step(procs[p], fs)
       IN  /\ procs' = [procs EXCEPT ![p] = s.l]
           /\ fs' = s.f
    /\ UNCHANGED <<version, song, prev, call, result>>

NextConc ==
    \/ \E p \in Procs : CallCached(p)
    \/ \E p \in Procs : CallSong(p, ConfigA)
    \/ \E p \in Procs : StepProc(p)
    \/ \E text \in SongTexts : EditSong(text)

SpecConc == InitConc /\ [][NextConc]_vars

----------------------------------------------------------------------------
(* Runs beside a changing cache directory: one process constructs the song *)
(* of the data directory while, between its steps, the cache directory is  *)
(* removed (a user clearing the cache) or a file takes its place.          *)

\* The paths of the tree at or below <data directory>/.cache.
CachePaths == {p \in Tree : Len(p) >= 2 /\ SubSeq(p, 1, 2) = CacheDirSegs}

\* rm -rf <data directory>/.cache
ClearCache ==
    /\ \E p \in CachePaths : fs[p].kind # "absent"
    /\ fs' = [p \in DOMAIN fs |-> IF p \in CachePaths THEN Absent ELSE fs[p]]
    /\ UNCHANGED <<version, song, prev, procs, call, result>>

\* A file is created where the cache directory would be.
ObstructCache ==
    /\ fs[CacheDirSegs].kind = "absent"
    /\ fs' = [fs EXCEPT ![CacheDirSegs] = File(Garbage)]
    /\ UNCHANGED <<version, song, prev, procs, call, result>>

NextEnv ==
    \/ CallSong(1, ConfigA)
    \/ StepProc(1)
    \/ ClearCache
    \/ ObstructCache

SpecEnv == InitConc /\ [][NextEnv]_vars

----------------------------------------------------------------------------
(* Runs on damaged inputs: constructions, one after the other, from trees  *)
(* where the song file may hold a text the parse hook rejects, and where   *)
(* the cache file may be missing, damaged, or a snapshot left by another   *)
(* release of the program, complete or lacking one attribute.              *)

\* A text the parse hook of the format raises on.
BadText == "bad"

\* A snapshot another release left for the song text: every value differs
\* from what this release parses, the hash is the hash of the text and the
\* version is the CACHE_VERSION of the source.
Foreign(text) ==
    [a \in Range(cached_attributes) |->
        CASE a = "titles" -> << <<"b", "b">> >>
          [] a = "unprefixed_titles" -> << <<"b", "b">> >>
          [] a = "cached" -> "old"
          [] a = "data" -> {<<"album", "old">>}
          [] a = "subpath" -> Path(FALSE, <<"old.sg">>)
          [] a = "languages" -> <<"old">>
          [] a = "authors" -> <<"old">>
          [] a = "_filehash" -> Md5(Text(text))
          [] a = "_version" -> CACHE_VERSION]

\* The mapping without one key.
Lacking(snap, key) == [a \in (DOMAIN snap) \ {key} |-> snap[a]]

\* What the cache file holds in those trees (Absent: no cache directory).
FaultCaches ==
    {Absent, File(Garbage), File(Empty)}
    \cup {File(Pickle(Foreign(t))) : t \in SongTexts}
    \cup {File(Pickle(Lacking(Foreign(t), k))) :
              t \in SongTexts, k \in Range(cached_attributes)}

FaultTrees ==
    { [p \in Tree |->
          IF p = AbsSub.segs THEN File(Text(text))
          ELSE IF p = CacheFile.segs THEN cache
          ELSE IF p \in {<<"d", ".cache">>, <<"d", ".cache", "sub">>}
               THEN (IF cache = Absent THEN Absent ELSE Dir)
          ELSE FS0[p]] :
      text \in SongTexts \cup {BadText}, cache \in FaultCaches }

InitFault ==
    /\ fs \in FaultTrees
    /\ version = CACHE_VERSION
    /\ song = NoCall
    /\ prev = NoPrev
    /\ procs = [p \in Procs |-> Idle]
    /\ call = NoPure
    /\ result = NoPure

\* Song(subpath, config, datadir=arg), one construction after the other.
ConstructNext(subpath, config, arg) ==
    LET r == Run(Begin(subpath, config, arg, version), fs)
    IN  /\ fs' = r.f
        /\ song' = [l |-> r.l, pre |-> fs, post |-> r.f]
        /\ UNCHANGED <<version, prev, procs, call, result>>

NextFault ==
    \E subpath \in Subpaths, config \in Configs, arg \in DatadirArgs :
        ConstructNext(subpath, config, arg)

SpecFault == InitFault /\ [][NextFault]_vars

----------------------------------------------------------------------------
(* DataSubpath (lines 29-62): one object, constructed and then changed by  *)
(* join or replaced by its clone.                                          *)

\* DataSubpath.__init__ (lines 37-42).
DataSubpath(datadir, subpath) ==
    [datadir |-> IF isabs(subpath) THEN EmptyPath ELSE datadir,
     subpath |-> subpath]

\* DataSubpath.fullpath (lines 47-50).
DataSubpath_fullpath(self) == join(self.datadir, self.subpath)

\* DataSubpath.clone (lines 52-54).
DataSubpath_clone(self) == DataSubpath(self.datadir, self.subpath)

\* DataSubpath.join (lines 56-62): self.subpath is replaced, self returned.
DataSubpath_join(self, path) == [self EXCEPT !.subpath = join(@, path)]

\* The datadirs and the paths the model constructs and joins with.
PathDatadirs == {EmptyPath, D, Path(FALSE, <<"e">>)}

PathArgs == {Path(FALSE, <<"a">>), Path(FALSE, <<"b">>), Path(TRUE, <<"x">>)}

InitPath ==
    /\ fs = FS0
    /\ version = CACHE_VERSION
    /\ song = NoCall
    /\ prev = NoPrev
    /\ procs = [p \in Procs |-> Idle]
    /\ call = NoPure
    /\ result = NoPure

\* DataSubpath(datadir, subpath)
NewPath(datadir, subpath) ==
    /\ call' = [op |-> "DataSubpath"]
    /\ result' = DataSubpath(datadir, subpath)
    /\ UNCHANGED <<fs, version, song, prev, procs>>

\* self.join(path)
JoinPath(path) ==
    /\ call.op \in {"DataSubpath", "join", "clone"}
    /\ Len(join(result.subpath, path).segs) <= MaxSegs
    /\ call' = [op |-> "join"]
    /\ result' = DataSubpath_join(result, path)
    /\ UNCHANGED <<fs, version, song, prev, procs>>

\* self.clone(), the model going on with the clone.
ClonePath ==
    /\ call.op \in {"DataSubpath", "join", "clone"}
    /\ call' = [op |-> "clone"]
    /\ result' = DataSubpath_clone(result)
    /\ UNCHANGED <<fs, version, song, prev, procs>>

NextPath ==
    \/ \E datadir \in PathDatadirs, subpath \in PathArgs : NewPath(datadir, subpath)
    \/ \E path \in PathArgs : JoinPath(path)
    \/ ClonePath

SpecPath == InitPath /\ [][NextPath]_vars

----------------------------------------------------------------------------
(* Song.render (lines 170-180).  A variant of Song is the set of the       *)
(* render_<format> methods it defines.                                     *)

\* What the hook named method returns when called with (output, *args).
HookReturn(method, output, args) ==
    [rendered |-> method, output |-> output, args |-> args]

\* render returning None where line 180 raises.
render_Silent(hooks, output_format, output, args) ==
    LET method == "render_" \o output_format
    IN  IF method \in hooks
        THEN [raised |-> "", value |-> HookReturn(method, output, args),
              calls |-> << <<method, output, args>> >>]
        ELSE [raised |-> "", value |-> [op |-> "none"], calls |-> <<>>]

\* The outcome of render: the exception raised ("" if none), the value
\* returned, and the hooks called with their arguments, in order.
render(hooks, output_format, output, args) ==
    LET method == "render_" \o output_format
    IN  IF method \in hooks
        THEN [raised |-> "", value |-> HookReturn(method, output, args),
              calls |-> << <<method, output, args>> >>]
        ELSE [raised |-> "NotImplementedError", value |-> NoPure, calls |-> <<>>]

Formats == {"latex", "chordpro", "html", "pdf"}

Hooks == {"render_latex", "render_chordpro", "render_html"}

InitRender ==
    /\ fs = FS0
    /\ version = CACHE_VERSION
    /\ song = NoCall
    /\ prev = NoPrev
    /\ procs = [p \in Procs |-> Idle]
    /\ call \in [op : {"render"}, hooks : SUBSET Hooks, output_format : Formats,
                  output : {"None", "out.tex"}, args : {<<>>, <<"x">>}]
    /\ result = NoPure

\* song.render(output_format, output, *args) on a variant with these hooks.
Render ==
    /\ result = NoPure
    /\ result' = render(call.hooks, call.output_format, call.output, call.args)
    /\ UNCHANGED <<fs, version, song, prev, procs, call>>

NextRender == Render

SpecRender == InitRender /\ [][NextRender]_vars

----------------------------------------------------------------------------
(* Song.search_file (lines 207-233). *)

\* filename + extension, on the last segment of the name.
WithExtension(filename, extension) ==
    Path(filename.abs,
         [filename.segs EXCEPT ![Len(filename.segs)] = @ \o extension])

\* Lines 229-232: the extensions in order, in one directory; the first
\* candidate that is a file, as an absolute path, or None.
RECURSIVE SearchExtensions(_, _, _, _)
SearchExtensions(f, directory, filename, extensions) ==
    IF extensions = <<>> THEN None
    ELSE LET fullpath == join(directory, WithExtension(filename, Head(extensions)))
         IN  IF isfile(f, fullpath) THEN abspath(fullpath)
             ELSE SearchExtensions(f, directory, filename, Tail(extensions))

\* Lines 228-233: the directories in order; None when nothing is found.
RECURSIVE SearchDirectories(_, _, _, _)
SearchDirectories(f, directories, filename, extensions) ==
    IF directories = <<>> THEN None
    ELSE LET found == SearchExtensions(f, Head(directories), filename, extensions)
         IN  IF found # None THEN found
             ELSE SearchDirectories(f, Tail(directories), filename, extensions)

\* search_file with the song's own directory put last.
search_file_SongdirLast(f, fullpath, config, filename, extensions, directories) ==
    LET exts == IF ~extensions.given THEN <<"">> ELSE extensions.value
        dirs == IF ~directories.given THEN config["datadir"] ELSE directories.value
        songdir == dirname(fullpath)
    IN  SearchDirectories(f, dirs \o <<songdir>>, filename, exts)

\* An optional argument: left out (None), or given.
Default == [given |-> FALSE]
Given(x) == [given |-> TRUE, value |-> x]

\* Lines 221-228: the defaults, and the song's own directory put first.
search_file(f, fullpath, config, filename, extensions, directories) ==
    LET exts == IF ~extensions.given THEN <<"">> ELSE extensions.value
        dirs == IF ~directories.given THEN config["datadir"] ELSE directories.value
        songdir == dirname(fullpath)
    IN  SearchDirectories(f, <<songdir>> \o dirs, filename, exts)

\* The directories searched in the model, next to the song's own /d/sub.
DirA == Path(TRUE, <<"d", "a">>)
DirB == Path(TRUE, <<"d", "b">>)

Name == Path(FALSE, <<"name">>)

\* The file systems searched: "name" and "name.png" are each a file or
\* missing in /d, /d/sub, /d/a and /d/b; /d/sub/name may also be a
\* directory.
SearchPlaces == { <<"d">>, <<"d", "sub">>, <<"d", "a">>, <<"d", "b">> }

SearchFiles == { Append(d, n) : d \in SearchPlaces, n \in {"name", "name.png"} }

SearchTrees ==
    { [p \in (Tree \cup SearchPlaces \cup SearchFiles) |->
          IF p \in SearchFiles THEN (IF p \in present THEN File(Text("t1"))
                                     ELSE IF p \in asdir THEN Dir ELSE Absent)
          ELSE IF p \in SearchPlaces THEN Dir
          ELSE FS0[p]] :
      present \in SUBSET SearchFiles, asdir \in SUBSET { <<"d", "sub", "name">> } }

InitSearch ==
    /\ fs \in SearchTrees
    /\ version = CACHE_VERSION
    /\ song = NoCall
    /\ prev = NoPrev
    /\ procs = [p \in Procs |-> Idle]
    /\ call \in [op : {"search_file"}, fullpath : {AbsSub, RelSub}, filename : {Name},
                  extensions : {Default, Given(<<"">>), Given(<<"", ".png">>),
                                Given(<<".png", "">>)},
                  directories : {Default, Given(<<>>), Given(<<DirA, DirB>>),
                                 Given(<<DirB, DirA>>)}]
    /\ result = NoPure

\* song.search_file(filename, extensions, directories) on a song bound to
\* fullpath, with the configuration whose datadirs are <</d>>.
Search ==
    /\ result = NoPure
    /\ result' = [value |-> search_file(fs, call.fullpath, ConfigA, call.filename,
                                        call.extensions, call.directories)]
    /\ UNCHANGED <<fs, version, song, prev, procs, call>>

NextSearch == Search

SpecSearch == InitSearch /\ [][NextSearch]_vars

----------------------------------------------------------------------------
(* Runs of unprefixed_title on bounded titles and prefix lists. *)

Chars == {"a", "b", " ", "'", "\n"}

RECURSIVE Strings(_)
\* The strings of at most n characters.
Strings(n) ==
    IF n = 0 THEN {<<>>}
    ELSE LET shorter == Strings(n - 1)
         IN  shorter \cup {Append(t, c) : t \in shorter, c \in Chars}

PrefixWords == { <<"a">>, <<"a", "b">>, <<"b">> }

RECURSIVE PrefixLists(_)
PrefixLists(n) ==
    IF n = 0 THEN {<<>>}
    ELSE LET shorter == PrefixLists(n - 1)
         IN  shorter \cup {Append(ps, w) : ps \in shorter, w \in PrefixWords}

InitTitle ==
    /\ fs = FS0
    /\ version = CACHE_VERSION
    /\ song = NoCall
    /\ prev = NoPrev
    /\ procs = [p \in Procs |-> Idle]
    /\ call \in [op : {"unprefixed_title"}, title : Strings(MaxTitleLen),
                  prefixes : PrefixLists(MaxPrefixes)]
    /\ result = NoPure

\* unprefixed_title(title, prefixes)
Unprefix ==
    /\ result = NoPure
    /\ result' = [value |-> unprefixed_title(call.title, call.prefixes)]
    /\ UNCHANGED <<fs, version, song, prev, procs, call>>

NextTitle == Unprefix

SpecTitle == InitTitle /\ [][NextTitle]_vars

----------------------------------------------------------------------------
(* Properties of the sequential runs. *)

\* The latest construction has ended: the Song is ready, or the constructor
\* raised.
Done == song.l.op = "Song" /\ song.l.pc \in {"ready", "raised"}

Ran(event) == event \in Range(song.l.trace)

\* The song file and the cache entry as the latest construction found them.
SourceBefore == Node(song.pre, song.l.fullpath)
CacheBefore == Node(song.pre, CachedPath(song.l.arg, song.l.subpath))

\* The latest construction follows a completed one of the same base
\* directory and subpath.
Again ==
    /\ Done
    /\ prev.op = "Song"
    /\ song.l.arg = prev.arg
    /\ song.l.subpath = prev.subpath

\* ... with the same config and release, the song file holding the bytes it
\* held then, and the cache entry being the one that construction left.
Unchanged ==
    /\ Again
    /\ song.l.config = prev.config
    /\ song.l.release = prev.release
    /\ SourceBefore = File(prev.bytes)
    /\ CacheBefore = prev.cache

\* C1: a Song constructed again with the same base directory, subpath and
\* config, the file's bytes and the schema version unchanged (and the cache
\* entry as the first construction left it), is ready without the parse
\* hook having run, with the titles, authors, data and languages of the
\* first construction.
C1_SecondConstructionHits ==
    Unchanged =>
        /\ song.l.pc = "ready"
        /\ ~Ran("parse")
        /\ \A a \in {"titles", "authors", "data", "languages"} :
              song.l.self[a] = prev.self[a]

C1_Witness == Unchanged /\ song.l.pc = "ready" /\ Ran("load") /\ ~Ran("parse")

\* C2: when the bytes of the song file differ from those of the construction
\* before, for the same base directory and subpath, the construction is a
\* miss: the parse hook runs and no attribute is taken from the snapshot.
C2_ChangedBytesMiss ==
    (Again /\ SourceBefore # File(prev.bytes)) => Ran("parse") /\ ~Ran("setattr")

C2_Witness ==
    /\ Again
    /\ SourceBefore # File(prev.bytes)
    /\ CacheBefore = prev.cache
    /\ CacheBefore.kind = "file"
    /\ Ran("load")
    /\ song.l.pc = "ready"

\* The cache entry found is a readable snapshot of the bytes the song file
\* holds, stored under another schema version than the running release's.
StaleVersion ==
    /\ Done
    /\ Truthy(song.l.arg)
    /\ SourceBefore.kind = "file"
    /\ CacheBefore.kind = "file"
    /\ CacheBefore.bytes.fmt = "pickle"
    /\ {"_filehash", "_version"} \subseteq DOMAIN CacheBefore.bytes.snap
    /\ CacheBefore.bytes.snap["_filehash"] = Md5(SourceBefore.bytes)
    /\ CacheBefore.bytes.snap["_version"] # song.l.release

\* C3: a snapshot of another schema version is not used, even when its
\* hash is the hash of the current file: the parse hook runs and no
\* attribute is taken from the snapshot.
C3_StaleVersionMiss == StaleVersion => Ran("parse") /\ ~Ran("setattr")

C3_Witness == StaleVersion /\ song.l.pc = "ready" /\ Ran("load")

\* The cache entry found is a file that does not unpickle.
Undeserializable ==
    /\ Done
    /\ Truthy(song.l.arg)
    /\ CacheBefore.kind = "file"
    /\ CacheBefore.bytes.fmt # "pickle"

\* The steps of a miss after the cache check.
MissSteps == <<"parse", "post", "persist", "write">>

\* C4: a cache file that cannot be deserialized does not make the
\* construction raise: a warning is logged and the construction goes on as
\* a miss (parse, post-processing, persist); only the parse hook can still
\* raise, and it does not on a song text.
C4_CorruptCacheIsMiss ==
    Undeserializable =>
        /\ \/ song.l.trace = <<"hash", "exists", "load", "warn">> \o MissSteps
           \/ /\ song.l.trace = <<"hash", "exists", "load", "warn", "parse">>
              /\ song.l.pc = "raised"
              /\ song.l.error = "ParseError"
              /\ ~ParseHook(SourceBefore.bytes).ok
        /\ song.l.pc = "raised" \/ Node(song.post, song.l.cpath) = File(Pickle(song.l.out))

C4_Witness ==
    /\ Undeserializable
    /\ CacheBefore.bytes = Garbage
    /\ song.l.pc = "ready"
    /\ Ran("warn")

\* C5: a Song constructed without a base directory (None or "") is not
\* cached: the parse hook runs, the cache is neither looked for nor read,
\* and the file system is left as it was.
C5_NoDatadirNoCache ==
    (Done /\ ~Truthy(song.l.arg)) =>
        /\ Ran("parse")
        /\ ~Ran("hash") /\ ~Ran("exists") /\ ~Ran("load") /\ ~Ran("write")
        /\ song.post = song.pre

C5_Witness ==
    /\ Done /\ song.l.arg = EmptyPath /\ song.l.pc = "ready"
    /\ prev.op = "Song" /\ isfile(song.pre, CacheFile)

\* The cache entry found is a hit: a readable snapshot with every cached
\* attribute, the hash of the song file and the version of the release.
IsHit ==
    /\ Truthy(song.l.arg)
    /\ SourceBefore.kind = "file"
    /\ CacheBefore.kind = "file"
    /\ CacheBefore.bytes.fmt = "pickle"
    /\ Range(cached_attributes) \subseteq DOMAIN CacheBefore.bytes.snap
    /\ CacheBefore.bytes.snap["_filehash"] = Md5(SourceBefore.bytes)
    /\ CacheBefore.bytes.snap["_version"] = song.l.release

\* C10: a ready Song was constructed along one of two paths: on a cache hit
\* none of parse, post-processing and persist ran; otherwise the parse hook
\* ran, then post-processing, then persist, each once and in that order.
C10_TwoPaths ==
    (song.l.op = "Song" /\ song.l.pc = "ready") =>
        LET ran == SelectSeq(song.l.trace, LAMBDA e : e \in {"parse", "post", "persist"})
        IN  IF IsHit THEN ran = <<>> ELSE ran = <<"parse", "post", "persist">>

C10_WitnessHit == song.l.op = "Song" /\ song.l.pc = "ready" /\ IsHit

C10_WitnessMiss ==
    /\ song.l.op = "Song" /\ song.l.pc = "ready" /\ ~IsHit
    /\ Truthy(song.l.arg) /\ CacheBefore.kind = "file"

\* The latest construction was a miss with a base directory, and completed.
MissCompleted ==
    /\ song.l.op = "Song" /\ song.l.pc = "ready"
    /\ Truthy(song.l.arg)
    /\ Ran("parse")

\* The cache entry as the latest construction left it.
CacheAfter == Node(song.post, CachedPath(song.l.arg, song.l.subpath))

\* C11: after a completed cache-miss construction with a base directory,
\* the cache file of (base directory, subpath) holds a mapping whose keys
\* are exactly the cached attributes, with the hash this construction
\* computed and the CACHE_VERSION of the running release, whatever the
\* file held before.
C11_MissLeavesFullSnapshot ==
    MissCompleted =>
        /\ CacheAfter.kind = "file"
        /\ CacheAfter.bytes.fmt = "pickle"
        /\ DOMAIN CacheAfter.bytes.snap = Range(cached_attributes)
        /\ CacheAfter.bytes.snap["_filehash"] = Md5(SourceBefore.bytes)
        /\ CacheAfter.bytes.snap["_filehash"] = song.l.self["_filehash"]
        /\ CacheAfter.bytes.snap["_version"] = song.l.release

\* A miss that replaced a damaged cache file, under an upgraded release.
C11_Witness ==
    /\ MissCompleted
    /\ CacheBefore = File(Garbage)
    /\ song.l.release # CACHE_VERSION
    /\ CacheAfter.kind = "file" /\ CacheAfter.bytes.fmt = "pickle"

\* The cache directory of a base directory: <datadir>/.cache.
CacheDir(datadir) == abspath(join(datadir, Path(FALSE, <<".cache">>)))

\* Path p lies inside directory d (both absolute and normalised).
Inside(p, d) ==
    /\ p.abs
    /\ Len(d.segs) < Len(p.segs)
    /\ SubSeq(p.segs, 1, Len(d.segs)) = d.segs

\* C13: the path cached_name returns for the base directory and subpath of
\* a construction is an absolute path inside <base directory>/.cache,
\* whatever the subpath (relative or absolute).
C13_CacheInsideCacheDir ==
    (song.l.op = "Song" /\ Truthy(song.l.arg) /\ Ran("exists")) =>
        Inside(song.l.cpath, CacheDir(song.l.arg))

\* C13, for a relative subpath without parent-directory segments: the
\* cache path is <base directory>/.cache/<subpath>.
C13_RelativeSubpath ==
    (song.l.op = "Song" /\ Truthy(song.l.arg) /\ Ran("exists")
        /\ ~isabs(song.l.subpath) /\ ".." \notin Range(song.l.subpath.segs)) =>
        /\ Inside(song.l.cpath, CacheDir(song.l.arg))
        /\ song.l.cpath.segs = CacheDir(song.l.arg).segs \o song.l.subpath.segs

\* C18: a ready Song, from a hit or from a parse, has as many
\* unprefixed_titles as titles, the i-th being unprefixed_title of the
\* i-th title with the title prefixes of the config it was constructed
\* with.
C18_UnprefixedFollowConfig ==
    (song.l.op = "Song" /\ song.l.pc = "ready") =>
        LET titles == song.l.self["titles"]
            unprefixed == song.l.self["unprefixed_titles"]
        IN  /\ Len(unprefixed) = Len(titles)
            /\ \A i \in 1..Len(titles) :
                  unprefixed[i] =
                      unprefixed_title(titles[i], song.l.config["titleprefixwords"])

\* C18, for the constructions that parsed: the same.
C18_AfterParse ==
    (song.l.op = "Song" /\ song.l.pc = "ready" /\ Ran("parse")) =>
        LET titles == song.l.self["titles"]
            unprefixed == song.l.self["unprefixed_titles"]
        IN  /\ Len(unprefixed) = Len(titles)
            /\ \A i \in 1..Len(titles) :
                  unprefixed[i] =
                      unprefixed_title(titles[i], song.l.config["titleprefixwords"])

\* C20: no construction writes to the song file: the path the persist step
\* writes is not the song's fullpath, and the song file holds after the
\* construction what it held before.
C20_SourceNeverWritten ==
    Done =>
        /\ Node(song.post, song.l.fullpath) = SourceBefore
        /\ Ran("write") => song.l.cpath # abspath(song.l.fullpath)

\* C20, for a relative subpath: the same.
C20_RelativeSubpath ==
    (Done /\ ~isabs(song.l.subpath)) =>
        /\ Node(song.post, song.l.fullpath) = SourceBefore
        /\ Ran("write") => song.l.cpath # abspath(song.l.fullpath)

----------------------------------------------------------------------------
(* Properties of the runs on damaged inputs. *)

\* The cache entry found unpickles to a mapping that lacks a cached
\* attribute.
Incomplete ==
    /\ Done
    /\ Truthy(song.l.arg)
    /\ CacheBefore.kind = "file"
    /\ CacheBefore.bytes.fmt = "pickle"
    /\ ~(Range(cached_attributes) \subseteq DOMAIN CacheBefore.bytes.snap)

\* The parse hook accepts the song file the latest construction found.
Parseable == SourceBefore.kind = "file" /\ ParseHook(SourceBefore.bytes).ok

\* The derived fields a parse of the song file and its post-processing
\* give, for the arguments of the latest construction.
Fresh ==
    LET parsed == ParseHook(SourceBefore.bytes).attrs
    IN  [titles |-> parsed.titles,
         unprefixed_titles |->
             [i \in 1..Len(parsed.titles) |->
                 unprefixed_title(parsed.titles[i], song.l.config["titleprefixwords"])],
         cached |-> parsed.cached,
         data |-> parsed.data,
         subpath |-> song.l.subpath,
         languages |-> parsed.languages,
         authors |-> process_listauthors(parsed.authors, AuthWords(song.l.config))]

\* C12: a cache file that unpickles to a mapping lacking a cached attribute
\* is never a hit, also when its hash and version match: the construction
\* parses again without raising, and titles, unprefixed_titles, cached,
\* data, subpath, languages and authors are those of the fresh parse and
\* post-processing, none is the snapshot's.
C12_IncompleteSnapshotIsMiss ==
    (Incomplete /\ Parseable) =>
        /\ song.l.pc = "ready"
        /\ Ran("parse")
        /\ \A a \in DOMAIN Fresh :
              /\ song.l.self[a] = Fresh[a]
              /\ a \in DOMAIN CacheBefore.bytes.snap =>
                    song.l.self[a] # CacheBefore.bytes.snap[a]

\* A snapshot with the hash of the file and the running version that lacks
\* only authors: six attributes were taken from it before the KeyError.
C12_Witness ==
    /\ Incomplete /\ Parseable
    /\ DOMAIN CacheBefore.bytes.snap = Range(cached_attributes) \ {"authors"}
    /\ CacheBefore.bytes.snap["_filehash"] = Md5(SourceBefore.bytes)
    /\ CacheBefore.bytes.snap["_version"] = song.l.release
    /\ Len(SelectSeq(song.l.trace, LAMBDA e : e = "setattr")) = 6
    /\ song.l.pc = "ready"

\* C14: when the parse hook raises, the exception leaves the constructor,
\* nothing is written, and the cache entry of the song is what it was
\* before the construction.
C14_ParseErrorPropagates ==
    (Done /\ Ran("parse") /\ SourceBefore.kind = "file" /\ ~Parseable) =>
        /\ song.l.pc = "raised"
        /\ song.l.error = "ParseError"
        /\ ~Ran("write")
        /\ Truthy(song.l.arg) => CacheAfter = CacheBefore

\* The parse hook raised with a stale snapshot on disk.
C14_Witness ==
    /\ Done /\ Ran("parse") /\ ~Parseable
    /\ Truthy(song.l.arg)
    /\ song.l.subpath = RelSub
    /\ CacheBefore.kind = "file" /\ CacheBefore.bytes.fmt = "pickle"
    /\ song.l.error = "ParseError"

----------------------------------------------------------------------------
(* Properties of the concurrent runs. *)

\* The errors a failed directory creation raises.
MkErrors == {"EEXIST", "ENOENT", "ENOTDIR"}

\* C6: concurrent calls of cached_name for the same directory, missing when
\* they start, all return the cache path, however their directory-creation
\* steps interleave: none ends in an exception, alone or inside a
\* construction.
C6_ConcurrentCachedName ==
    \A p \in Procs :
        /\ procs[p].pc = "raised" => procs[p].error \notin MkErrors
        /\ (procs[p].op = "cached_name" /\ procs[p].pc \in Terminal) =>
              /\ procs[p].pc = "returned"
              /\ procs[p].cpath = CacheFile
              /\ isdir(fs, dirname(CacheFile))

\* Both calls have returned, and the first lost the race for a directory it
\* had found missing.
C6_Witness ==
    /\ \A p \in Procs : procs[p].op = "cached_name" /\ procs[p].pc = "returned"
    /\ procs[1].mk.raced

\* What the pickle.load of process p read is a complete snapshot: a pickled
\* mapping with every cached attribute.
SawComplete(p) ==
    /\ procs[p].seen.kind = "file"
    /\ procs[p].seen.bytes.fmt = "pickle"
    /\ DOMAIN procs[p].seen.bytes.snap = Range(cached_attributes)

\* C16: whatever a process reads from the cache entry while the other
\* writes it is a complete snapshot, the old one or the new one.
C16_ReadsSeeCompleteSnapshots ==
    \A p \in Procs : procs[p].seen.kind = "file" => SawComplete(p)

\* C16, amended: what a process reads from the cache entry while the other
\* writes it is a complete snapshot or the file the other's open has just
\* emptied; the emptied file does not unpickle, the reader logs the
\* warning, takes no attribute from it and parses.
C16_TornReadIsMiss ==
    \A p \in Procs :
        procs[p].seen.kind = "file" =>
            \/ SawComplete(p)
            \/ /\ procs[p].seen.bytes = Empty
               /\ "warn" \in Range(procs[p].trace)
               /\ "setattr" \notin Range(procs[p].trace)
               /\ procs[p].pc # "ready" \/ "parse" \in Range(procs[p].trace)

\* A process read the file between the other's open and dump, and is ready.
C16_Witness ==
    \E p \in Procs :
        /\ procs[p].seen = File(Empty)
        /\ procs[p].pc = "ready"
        /\ \E q \in Procs \ {p} : "write" \in Range(procs[q].trace)

\* The mapping m holds, for the song text t and the config, the hash of t
\* and the titles, languages, data and authors a parse of t gives.
SnapshotOf(m, t, config) ==
    /\ m["_filehash"] = Md5(Text(t))
    /\ m["titles"] = Parsed(t).titles
    /\ m["languages"] = Parsed(t).languages
    /\ m["data"] = Parsed(t).data
    /\ m["authors"] = process_listauthors(Parsed(t).authors, AuthWords(config))

\* C19: every snapshot a construction persists stores the hash of the very
\* content its titles, languages, authors and data were parsed from,
\* however edits of the song file fall between its hash, parse and persist
\* steps; so the fields a later hit restores are those a parse of the
\* content it hashed gives.
C19_HashOfParsedContent ==
    \A p \in Procs :
        /\ procs[p].out # NoSelf =>
              \E t \in SongTexts : SnapshotOf(procs[p].out, t, procs[p].config)
        /\ (procs[p].pc = "ready" /\ "setattr" \in Range(procs[p].trace)) =>
              \E t \in SongTexts : SnapshotOf(procs[p].self, t, procs[p].config)

\* C15: a directory-creation failure other than "already exists" (which
\* includes a path that exists and is no directory) leaves cached_name and
\* the construction as the exception it is, at the cache check, at the
\* load and at persist: the call that met it has raised with that error.
C15_MkErrorsPropagate ==
    \A p \in Procs :
        "mkfail" \in Range(procs[p].trace) =>
            /\ procs[p].pc = "raised"
            /\ procs[p].error \in MkErrors

----------------------------------------------------------------------------
(* Properties of search_file, render and unprefixed_title. *)

\* The directories and extensions a search goes through, in order.
SearchedDirs ==
    <<dirname(call.fullpath)>> \o
        (IF call.directories.given THEN call.directories.value ELSE ConfigA["datadir"])

SearchedExts == IF call.extensions.given THEN call.extensions.value ELSE <<"">>

Candidate(i, j) == join(SearchedDirs[i], WithExtension(call.filename, SearchedExts[j]))

Places == (1..Len(SearchedDirs)) \X (1..Len(SearchedExts))

Earlier(a, b) == a[1] < b[1] \/ (a[1] = b[1] /\ a[2] < b[2])

\* C17: in every state of a DataSubpath, after its construction and after
\* any joins and clones, an absolute subpath comes with the empty datadir.
C17_AbsoluteMeansNoDatadir ==
    call.op \in {"DataSubpath", "join", "clone"} =>
        (isabs(result.subpath) => result.datadir = EmptyPath)

\* C17, after the construction and after a clone: the same.
C17_AfterInitAndClone ==
    call.op \in {"DataSubpath", "clone"} =>
        (isabs(result.subpath) => result.datadir = EmptyPath)

\* C7: search_file goes through the song's own directory first, then the
\* directories in order, and in each through the extensions in order; it
\* returns the absolute path of the first candidate that is a file, and
\* None when no candidate is.
C7_SearchOrder ==
    (call.op = "search_file" /\ result # NoPure) =>
        LET hits == {c \in Places : isfile(fs, Candidate(c[1], c[2]))}
        IN  IF hits = {} THEN result.value = None
            ELSE \E c \in hits :
                    /\ \A e \in hits : e = c \/ Earlier(c, e)
                    /\ result.value = abspath(Candidate(c[1], c[2]))

\* The example of the claim: with directories [dirA, dirB] and extensions
\* ["", ".png"], where only dirB/name.png exists, dirB/name.png is returned.
C7_Witness ==
    /\ call.op = "search_file" /\ result # NoPure
    /\ call.directories = Given(<<DirA, DirB>>)
    /\ call.extensions = Given(<<"", ".png">>)
    /\ \A p \in SearchFiles : (fs[p].kind = "file") = (p = <<"d", "b", "name.png">>)
    /\ result.value = Path(TRUE, <<"d", "b", "name.png">>)

\* C8: render raises NotImplementedError when the variant has no
\* render_<format> hook and calls nothing; otherwise it calls that hook,
\* once, with the output and the extra arguments, and returns what the hook
\* returns.
C8_RenderDispatch ==
    (call.op = "render" /\ result # NoPure) =>
        LET method == "render_" \o call.output_format
        IN  IF method \in call.hooks
            THEN /\ result.raised = ""
                 /\ result.calls = << <<method, call.output, call.args>> >>
                 /\ result.value = HookReturn(method, call.output, call.args)
            ELSE /\ result.raised = "NotImplementedError"
                 /\ result.calls = <<>>

C8_Witness ==
    /\ call.op = "render" /\ result # NoPure
    /\ call.hooks = {"render_latex"}
    /\ call.output_format = "chordpro"
    /\ result.raised = "NotImplementedError"

\* The prefix stands at the start of the title as a whole word: the title
\* starts with it, and no word character follows it.
WholeWordAtStart(title, prefix) ==
    /\ Len(prefix) <= Len(title)
    /\ SubSeq(title, 1, Len(prefix)) = prefix
    /\ Len(prefix) < Len(title) => title[Len(prefix) + 1] \notin {"a", "b"}

\* The title without the prefix and the white space that follows it.
WithoutPrefix(title, prefix) ==
    LET rest == SubSeq(title, Len(prefix) + 1, Len(title))
        blank == {i \in 1..Len(rest) : \A j \in 1..i : rest[j] \in {" ", "\n"}}
    IN  SubSeq(rest, Cardinality(blank) + 1, Len(rest))

\* The first prefix of the list, in order, that stands at the start of the
\* title as a whole word is removed; without one the title is unchanged.
FirstPrefixRemoved(title, prefixes) ==
    LET matching == {i \in 1..Len(prefixes) : WholeWordAtStart(title, prefixes[i])}
    IN  IF matching = {} THEN title
        ELSE WithoutPrefix(title,
                 prefixes[CHOOSE i \in matching : \A j \in matching : i <= j])

\* C9: unprefixed_title removes the first prefix of the list that stands at
\* the start of the title as a whole word, with the white space after it,
\* and nothing else; a title no prefix matches is returned unchanged.
C9_FirstPrefixRemoved ==
    (call.op = "unprefixed_title" /\ result # NoPure) =>
        result.value = FirstPrefixRemoved(call.title, call.prefixes)

\* C9, on titles of one line: the same, for titles without a line break.
C9_OneLineTitles ==
    (call.op = "unprefixed_title" /\ result # NoPure /\ "\n" \notin Range(call.title)) =>
        result.value = FirstPrefixRemoved(call.title, call.prefixes)

\* A title whose second prefix of the list is the first to match.
C9_Witness ==
    /\ call.op = "unprefixed_title" /\ result # NoPure
    /\ call.title = <<"a", "b", " ", "b">>
    /\ call.prefixes = << <<"a">>, <<"a", "b">> >>
    /\ result.value = <<"b">>

=============================================================================
